---- MODULE Spec2Model ----
(***************************************************************************)
(* Model of the visitor-management backend: the access-card ledger         *)
(* (app/routers/icard.py), the visit decision handlers                     *)
(* (app/routers/visitor.py), the QR lookup (app/routers/appointment.py)    *)
(* and the SMS reply webhook (app/routers/sms_webhook.py).                 *)
(*                                                                         *)
(* Tables are partial functions from primary key to row.  Text is a        *)
(* sequence of one-character strings, so that strip(), upper(), the        *)
(* \d{14} search and the keyword containment test are computed as the      *)
(* code computes them.                                                     *)
(***************************************************************************)
EXTENDS Integers, Sequences, FiniteSets, TLC

(* ------------------------------ bounds --------------------------------- *)
MaxCards == 2
MaxVisitors == 2
MaxTokens == 2
MaxReqs == 2

\* Python's None in an integer column (icards.occ_to, a missing visit id).
None == 0
\* A field the request body leaves out (model_dump(exclude_unset=True)).
Keep == -1
Unset == "unset"

CardIds == 1..MaxCards
VisitorIds == 1..MaxVisitors
ReqIds == 1..MaxReqs
CardNames == {"GATE-A", "GATE-B"}

VARIABLES
    cards,              \* icards table: id -> [card_name, occ_status, occ_to]
    next_card_id,       \* icards.id sequence
    visitors,           \* vis_visitors table: id -> row
    next_visitor_id,    \* vis_visitors.id sequence
    appointments,       \* vis_appointment table: id -> row
    pending_rejections, \* sms_webhook.pending_rejections: phone -> str(visit id)
    tasks,              \* queued background tasks that write to the store when run
    issued,             \* number of QR suffixes drawn from uuid4 so far
    clock,              \* the wall clock (func.now(), datetime.now())
    reqs,               \* in-flight assign requests (one DB session each)
    vis_approvers,      \* vis_approvers table as the auth code reads it: id -> row
    tokens,             \* access tokens issued by login
    sms_reqs,           \* webhook deliveries in flight (one coroutine each)
    last                \* the request handled by the latest step and its outcome

vars == <<cards, next_card_id, visitors, next_visitor_id, appointments,
          pending_rejections, tasks, issued, clock, reqs, vis_approvers, tokens,
          sms_reqs, last>>

authVars == <<vis_approvers, tokens>>

cardVars == <<cards, next_card_id>>
visitVars == <<visitors, next_visitor_id, appointments, pending_rejections,
               tasks, issued>>

(* ------------------------------ tables --------------------------------- *)
\* f with key k removed (db.delete + commit).
Without(f, k) == [x \in (DOMAIN f) \ {k} |-> f[x]]

\* f with row r stored under key k (db.add + commit, or an UPDATE).
With(f, k, r) == [x \in (DOMAIN f) \cup {k} |-> IF x = k THEN r ELSE f[x]]

ICard(name, occ, to) == [card_name |-> name, occ_status |-> occ, occ_to |-> to]

\* The latest request: the handler, the row it addressed, the outcome (HTTP
\* status or kind of SMS reply), the background tasks it queued and, for an SMS,
\* the sender.
Last(op, id, result) ==
    [op |-> op, id |-> id, result |-> result, queued |-> {}, from |-> <<>>]

(* ---------------------- access cards (icard.py) ------------------------ *)
NameTaken(name) == \E c \in DOMAIN cards : cards[c].card_name = name

\* POST /api/icards/ : the row takes occ_status and occ_to as the body gives them.
create_icard(name, occ, to) ==
    /\ next_card_id <= MaxCards
    /\ IF NameTaken(name)
       THEN /\ last' = Last("create_icard", None, "400")
            /\ UNCHANGED cardVars
       ELSE /\ cards' = With(cards, next_card_id, ICard(name, occ, to))
            /\ next_card_id' = next_card_id + 1
            /\ last' = Last("create_icard", next_card_id, "201")
    /\ UNCHANGED <<authVars, sms_reqs, visitVars, clock, reqs>>

\* ICardUpdate fields left unset keep the row's value (exclude_unset).
UpdatedCard(card, name, occ, to) ==
    [card_name  |-> IF name = Unset THEN card.card_name ELSE name,
     occ_status |-> IF occ = Unset THEN card.occ_status ELSE (occ = "true"),
     occ_to     |-> IF to = Keep THEN card.occ_to ELSE to]

\* PUT /api/icards/{card_id}
update_icard(card_id, name, occ, to) ==
    /\ IF card_id \notin DOMAIN cards
       THEN /\ last' = Last("update_icard", card_id, "404")
            /\ UNCHANGED cardVars
       ELSE IF name # Unset /\ name # cards[card_id].card_name /\ NameTaken(name)
       THEN /\ last' = Last("update_icard", card_id, "400")
            /\ UNCHANGED cardVars
       ELSE /\ cards' = With(cards, card_id, UpdatedCard(cards[card_id], name, occ, to))
            /\ last' = Last("update_icard", card_id, "200")
            /\ UNCHANGED next_card_id
    /\ UNCHANGED <<authVars, sms_reqs, visitVars, clock, reqs>>

\* The occupied card bound to visitor_id, if any (the existing_assignment query).
HoldsCard(tbl, visitor_id) ==
    \E c \in DOMAIN tbl : tbl[c].occ_to = visitor_id /\ tbl[c].occ_status

\* The outcome of assign's checks against the rows it reads.
AssignOutcome(tbl, card_id, visitor_id) ==
    IF card_id \notin DOMAIN tbl THEN "404"
    ELSE IF tbl[card_id].occ_status THEN "400"
    ELSE IF HoldsCard(tbl, visitor_id) THEN "400"
    ELSE "200"

\* POST /api/icards/{card_id}/assign, handled with no other request in flight.
assign_icard(card_id, visitor_id) ==
    /\ LET out == AssignOutcome(cards, card_id, visitor_id) IN
       /\ last' = Last("assign_icard", card_id, out)
       /\ IF out = "200"
          THEN cards' = With(cards, card_id,
                             ICard(cards[card_id].card_name, TRUE, visitor_id))
          ELSE UNCHANGED cards
    /\ UNCHANGED <<authVars, sms_reqs, next_card_id, visitVars, clock, reqs>>

\* A release that frees the card and leaves the visit without a check-out time.
release_icard_NoCheckOut(card_id) ==
    /\ IF card_id \notin DOMAIN cards
       THEN /\ last' = Last("release_icard", card_id, "404")
            /\ UNCHANGED cards
       ELSE IF ~cards[card_id].occ_status
       THEN /\ last' = Last("release_icard", card_id, "400")
            /\ UNCHANGED cards
       ELSE /\ cards' = With(cards, card_id,
                             ICard(cards[card_id].card_name, FALSE, None))
            /\ last' = Last("release_icard", card_id, "200")
    /\ UNCHANGED <<authVars, sms_reqs, visitors, next_card_id, next_visitor_id, appointments,
                   pending_rejections, tasks, issued, clock, reqs>>

\* POST /api/icards/{card_id}/release
release_icard(card_id) ==
    /\ IF card_id \notin DOMAIN cards
       THEN /\ last' = Last("release_icard", card_id, "404")
            /\ UNCHANGED <<cards, visitors>>
       ELSE IF ~cards[card_id].occ_status
       THEN /\ last' = Last("release_icard", card_id, "400")
            /\ UNCHANGED <<cards, visitors>>
       ELSE LET visitor_id == cards[card_id].occ_to IN
            /\ visitors' =
                 IF visitor_id # None /\ visitor_id \in DOMAIN visitors
                 THEN [visitors EXCEPT ![visitor_id].check_out_time = clock]
                 ELSE visitors
            /\ cards' = With(cards, card_id,
                             ICard(cards[card_id].card_name, FALSE, None))
            /\ last' = Last("release_icard", card_id, "200")
    /\ UNCHANGED <<authVars, sms_reqs, next_card_id, next_visitor_id, appointments,
                   pending_rejections, tasks, issued, clock, reqs>>

\* DELETE /api/icards/{card_id}
delete_icard(card_id) ==
    /\ IF card_id \notin DOMAIN cards
       THEN /\ last' = Last("delete_icard", card_id, "404")
            /\ UNCHANGED cards
       ELSE /\ cards' = Without(cards, card_id)
            /\ last' = Last("delete_icard", card_id, "204")
    /\ UNCHANGED <<authVars, sms_reqs, next_card_id, visitVars, clock, reqs>>

(* ------------- concurrent assign requests (icard.py:311-342) ----------- *)
\* assign_icard is a sync handler: FastAPI runs each request on a worker thread
\* with a DB session of its own (get_db), and nothing locks the rows it reads.
\* Each query sees what is committed when it runs.
IdleReq == [pc |-> "idle", card_id |-> None, visitor_id |-> None, result |-> "none"]

\* The request arrives and runs the card query and the two checks on it.
AssignReadCard(r, card_id, visitor_id) ==
    /\ reqs[r].pc = "idle"
    /\ reqs' = [reqs EXCEPT ![r] =
         IF card_id \notin DOMAIN cards
         THEN [pc |-> "done", card_id |-> card_id, visitor_id |-> visitor_id,
               result |-> "404"]
         ELSE IF cards[card_id].occ_status
         THEN [pc |-> "done", card_id |-> card_id, visitor_id |-> visitor_id,
               result |-> "400"]
         ELSE [pc |-> "card_free", card_id |-> card_id, visitor_id |-> visitor_id,
               result |-> "none"]]
    /\ last' = Last("assign_read_card", card_id, "none")
    /\ UNCHANGED <<authVars, sms_reqs, cardVars, visitVars, clock>>

\* The existing_assignment query.
AssignCheckVisitor(r) ==
    /\ reqs[r].pc = "card_free"
    /\ reqs' = [reqs EXCEPT ![r] =
         IF HoldsCard(cards, reqs[r].visitor_id)
         THEN [@ EXCEPT !.pc = "done", !.result = "400"]
         ELSE [@ EXCEPT !.pc = "visitor_free"]]
    /\ last' = Last("assign_check_visitor", reqs[r].card_id, "none")
    /\ UNCHANGED <<authVars, sms_reqs, cardVars, visitVars, clock>>

\* The UPDATE of the card row by primary key, and the commit.
AssignCommit(r) ==
    /\ reqs[r].pc = "visitor_free"
    /\ reqs[r].card_id \in DOMAIN cards
    /\ cards' = With(cards, reqs[r].card_id,
                     ICard(cards[reqs[r].card_id].card_name, TRUE, reqs[r].visitor_id))
    /\ reqs' = [reqs EXCEPT ![r] = [@ EXCEPT !.pc = "done", !.result = "200"]]
    /\ last' = Last("assign_icard", reqs[r].card_id, "200")
    /\ UNCHANGED <<authVars, sms_reqs, next_card_id, visitVars, clock>>

(* --------------------- visit intake (visitor.py) ----------------------- *)
\* reason_to_visit as a sequence of words; "[APPOINTMENT]" first marks an
\* appointment (visitor.py:671, 1225).
AppointmentMarker == "[APPOINTMENT]"
Reasons == {<<AppointmentMarker, "audit">>, <<"delivery">>}
PersonNames == {"ravi", "Ravi Kumar", "meera"}
NoReason == <<>>

Visitor(person, reason, now) ==
    [person_to_meet |-> person, reason_to_visit |-> reason, status |-> "WAITING",
     rejection_reason |-> NoReason, check_in_time |-> now, check_out_time |-> None]

HostSms(visitor_id) == [kind |-> "host_sms", id |-> visitor_id, qr |-> <<>>]

\* POST /api/visitors/check-in
check_in_visitor(person, reason) ==
    /\ next_visitor_id <= MaxVisitors
    /\ visitors' = With(visitors, next_visitor_id, Visitor(person, reason, clock))
    /\ next_visitor_id' = next_visitor_id + 1
    /\ clock' = clock + 1
    /\ last' = [Last("check_in_visitor", next_visitor_id, "201")
                  EXCEPT !.queued = {HostSms(next_visitor_id)}]
    /\ UNCHANGED <<authVars, sms_reqs, cardVars, appointments, pending_rejections, tasks, issued, reqs>>

(* ------------------------------- text ---------------------------------- *)
Digits == {"0","1","2","3","4","5","6","7","8","9"}
LowerCase == <<"a","b","c","d","e","f","g","h","i","j","k","l","m","n","o","p","q","r","s","t","u","v","w","x","y","z">>
UpperCase == <<"A","B","C","D","E","F","G","H","I","J","K","L","M","N","O","P","Q","R","S","T","U","V","W","X","Y","Z">>

\* str.isdigit on one character
IsDigit(c) == c \in Digits

\* str.upper on one character
UpperChar(c) ==
    IF \E i \in 1..Len(LowerCase) : LowerCase[i] = c
    THEN UpperCase[CHOOSE i \in 1..Len(LowerCase) : LowerCase[i] = c]
    ELSE c

\* str.upper
StrUpper(s) == [i \in 1..Len(s) |-> UpperChar(s[i])]

IsSpace(c) == c = " "

RECURSIVE LStrip(_)
LStrip(s) == IF Len(s) > 0 /\ IsSpace(s[1]) THEN LStrip(Tail(s)) ELSE s

RECURSIVE RStrip(_)
RStrip(s) ==
    IF Len(s) > 0 /\ IsSpace(s[Len(s)]) THEN RStrip(SubSeq(s, 1, Len(s) - 1)) ELSE s

\* str.strip
Strip(s) == RStrip(LStrip(s))

\* str.startswith
StartsWith(s, k) == Len(s) >= Len(k) /\ SubSeq(s, 1, Len(k)) = k

\* k in s
Contains(s, k) == \E i \in 0..(Len(s) - Len(k)) : SubSeq(s, i + 1, i + Len(k)) = k

\* ''.join(filter(str.isdigit, s))
DigitsOf(s) == SelectSeq(s, IsDigit)

\* The \d{14} of the webhook's regular expression.
IdLen == 14

\* \d{14} matches at position i of s.
IdAt(s, i) == i + IdLen - 1 <= Len(s) /\ \A j \in i..(i + IdLen - 1) : IsDigit(s[j])

\* re.search(r'\d{14}', s) finds a match.
HasId(s) == \E i \in 1..Len(s) : IdAt(s, i)

\* re.search(r'\d{14}', s).group(0): the leftmost match.
FirstId(s) ==
    LET i == CHOOSE k \in 1..Len(s) : IdAt(s, k) /\ \A j \in 1..(k - 1) : ~IdAt(s, j)
    IN SubSeq(s, i, i + IdLen - 1)

\* re.sub(r'\d{14}', '', s): every leftmost non-overlapping match removed.
RECURSIVE RemoveIds(_)
RemoveIds(s) ==
    IF Len(s) = 0 THEN <<>>
    ELSE IF IdAt(s, 1) THEN RemoveIds(SubSeq(s, IdLen + 1, Len(s)))
    ELSE <<s[1]>> \o RemoveIds(Tail(s))

\* A visit id as the 14 digits YYYYMMDDHHMMSS of its documented format: visit v
\* of the model is the visit numbered 2026010209065v.
IdPrefix == <<"2","0","2","6","0","1","0","2","0","9","0","6","5">>
IdStr(v) == IdPrefix \o <<ToString(v)>>

\* int(s) for a string of digits, as a visit id of the model (None: the number of
\* no visit).
IntOf(s) == IF \E v \in VisitorIds : IdStr(v) = s
            THEN CHOOSE v \in VisitorIds : IdStr(v) = s
            ELSE None

(* ------------------- visitor ids (visitor.py:110-164) ------------------ *)

\* The line feed character.
NewLine == "\n"

\* The value of one decimal digit.
DigitVal(c) == CHOOSE n \in 0..9 : ToString(n) = c

\* s without the line feed it may end with.
DropNewLine(s) ==
    IF Len(s) > 0 /\ s[Len(s)] = NewLine THEN SubSeq(s, 1, Len(s) - 1) ELSE s

\* re.match(r'^\d+$', s): one or more digits up to the end of the string, where $
\* also matches just before a line feed that ends the string.
MatchesDigits(s) ==
    /\ Len(DropNewLine(s)) > 0
    /\ \A i \in 1..Len(DropNewLine(s)) : IsDigit(DropNewLine(s)[i])

\* int(s) for a slice of at most four characters that passed the match: the
\* decimal value of its digits (int ignores surrounding white space).
RECURSIVE Decimal(_)
Decimal(s) ==
    IF Len(s) = 0 THEN 0
    ELSE Decimal(SubSeq(s, 1, Len(s) - 1)) * 10 + DigitVal(s[Len(s)])

FieldInt(s, from, to) == Decimal(DropNewLine(SubSeq(s, from + 1, to)))

\* The number of days datetime() allows in a month.
IsLeap(year) == year % 4 = 0 /\ (year % 100 # 0 \/ year % 400 = 0)
DaysInMonth(year, month) ==
    IF month = 2 THEN (IF IsLeap(year) THEN 29 ELSE 28)
    ELSE IF month \in {4, 6, 9, 11} THEN 30 ELSE 31

\* The checks on a string of 14 characters that passed the match.
DateTimeOk(s) ==
    LET year == FieldInt(s, 0, 4)
        month == FieldInt(s, 4, 6)
        day == FieldInt(s, 6, 8)
        hour == FieldInt(s, 8, 10)
        minute == FieldInt(s, 10, 12)
        second == FieldInt(s, 12, 14)
    IN /\ 1900 <= year /\ year <= 2100
       /\ 1 <= month /\ month <= 12
       /\ 1 <= day /\ day <= 31
       /\ 0 <= hour /\ hour <= 23
       /\ 0 <= minute /\ minute <= 59
       /\ 0 <= second /\ second <= 59
       /\ day <= DaysInMonth(year, month)

\* validate_visitor_id returns (it raises HTTP 400 otherwise).
ValidId(visitor_id) ==
    /\ MatchesDigits(visitor_id)
    /\ Len(visitor_id) = 14 => DateTimeOk(visitor_id)

\* validate_visitor_id's return value, int(visitor_id), as a visit id of the model.
validate_visitor_id(visitor_id) == IntOf(DropNewLine(visitor_id))

\* GET /api/visitors/{visitor_id}; last.from keeps the path parameter.
get_visitor_by_id(visitor_id) ==
    /\ last' = [Last("get_visitor_by_id",
                      IF ValidId(visitor_id) THEN validate_visitor_id(visitor_id)
                      ELSE None,
                      IF ~ValidId(visitor_id) THEN "400"
                      ELSE IF validate_visitor_id(visitor_id) \notin DOMAIN visitors
                      THEN "404" ELSE "200")
                   EXCEPT !.from = visitor_id]
    /\ UNCHANGED <<authVars, sms_reqs, cardVars, visitVars, clock, reqs>>

\* Path parameters the model sends: 14 characters put together from the six
\* fields, and strings of other lengths and with other characters.
Years == {<<"1","8","9","9">>, <<"1","9","0","0">>, <<"2","0","2","4">>,
          <<"2","1","0","1">>}
Months == {<<"0","2">>, <<"0","4">>, <<"1","2">>, <<"1","3">>}
Days == {<<"0","0">>, <<"2","9">>, <<"3","0">>, <<"3","1">>, <<"3","2">>}
Hours == {<<"2","3">>, <<"2","4">>}
Minutes == {<<"5","9">>, <<"6","0">>}
Seconds == {<<"5","9">>, <<"6","0">>}
StampIds ==
    {y \o mo \o d \o h \o mi \o sec :
       y \in Years, mo \in Months, d \in Days, h \in Hours, mi \in Minutes, sec \in Seconds}
OtherIds ==
    { <<"4","2">>, <<"4","a">>, <<"-","4","2">>, <<"4","2", NewLine>>,
      <<"4"," ","2">>, IdPrefix, IdStr(1), IdStr(2), IdStr(1) \o <<NewLine>>,
      <<"2","0","2","5","0","0","0","1","0","0","0","0","0","0">>,
      <<"2","0","2","5","1","2","3","1","2","3","5","9","5", NewLine>>,
      <<"2","0","2","5","1","3","0","1","1","2","0","0","0","0","0">>,
      <<"2","0","2","5","1","3","0","1","1","2","0","0","0","0", NewLine>> }
PathIds == StampIds \cup OtherIds

(* ------------------------ phones (sms_webhook.py) ---------------------- *)
\* format_phone_number
format_phone_number(phone_number) ==
    LET all == DigitsOf(phone_number)
        digits == IF StartsWith(all, <<"0">>) THEN Tail(all) ELSE all
    IN IF Len(digits) = 10 THEN <<"+","9","1">> \o digits
       ELSE IF Len(digits) = 12 /\ StartsWith(digits, <<"9","1">>) THEN <<"+">> \o digits
       ELSE IF StartsWith(phone_number, <<"+">>) THEN phone_number
       ELSE <<"+">> \o digits

\* normalize_phone_for_matching
normalize_phone_for_matching(phone) ==
    LET digits == DigitsOf(phone)
    IN IF Len(digits) >= 10 THEN SubSeq(digits, Len(digits) - 9, Len(digits)) ELSE digits

\* vis_approvers rows (username, name, is_active, ph_no; <<>> for a NULL
\* ph_no); the table is not written by the handlers modelled here.  arun is
\* a deactivated host; arun and sunil have no number on file.
Approvers ==
    { [username |-> "ravi", name |-> "Ravi Kumar", is_active |-> TRUE,
       ph_no |-> <<"+","9","1","9","8","7","6","5","4","3","2","1","0">>],
      [username |-> "meera", name |-> "Meera", is_active |-> TRUE,
       ph_no |-> <<"9","1","2","3","4","5","6","7","8","0">>],
      [username |-> "arun", name |-> "Arun", is_active |-> FALSE,
       ph_no |-> <<>>],
      [username |-> "sunil", name |-> "Sunil Dev Rao", is_active |-> TRUE,
       ph_no |-> <<>>] }

\* The approvers the three lookups of the webhook can return for a sender
\* (.first() without ORDER BY returns any matching row).
FindApprover(approver_phone, normalized_phone) ==
    LET like == {a \in Approvers : Contains(a.ph_no, normalized_phone)}
        exact == {a \in Approvers : a.ph_no = approver_phone}
        norm == {a \in Approvers :
                   Len(a.ph_no) > 0
                   /\ normalize_phone_for_matching(a.ph_no) = normalized_phone}
    IN IF like # {} THEN like ELSE IF exact # {} THEN exact ELSE norm

(* ------------- host name matching (visitor.py:1031-1213) --------------- *)
\* The characters of the names stored in vis_approvers.
Chars(s) ==
    CASE s = "ravi" -> <<"r","a","v","i">>
      [] s = "Ravi Kumar" -> <<"R","a","v","i"," ","K","u","m","a","r">>
      [] s = "meera" -> <<"m","e","e","r","a">>
      [] s = "Meera" -> <<"M","e","e","r","a">>
      [] s = "arun" -> <<"a","r","u","n">>
      [] s = "Arun" -> <<"A","r","u","n">>
      [] s = "sunil" -> <<"s","u","n","i","l">>
      [] s = "Sunil Dev Rao" -> <<"S","u","n","i","l"," ","D","e","v"," ","R","a","o">>

\* str.lower on one character
LowerChar(c) ==
    IF \E i \in 1..Len(UpperCase) : UpperCase[i] = c
    THEN LowerCase[CHOOSE i \in 1..Len(UpperCase) : UpperCase[i] = c]
    ELSE c

\* str.lower
StrLower(s) == [i \in 1..Len(s) |-> LowerChar(s[i])]

\* str.split(): the words between runs of whitespace
RECURSIVE SplitFrom(_, _)
SplitFrom(s, word) ==
    IF Len(s) = 0 THEN (IF Len(word) > 0 THEN <<word>> ELSE <<>>)
    ELSE IF IsSpace(s[1])
    THEN (IF Len(word) > 0 THEN <<word>> ELSE <<>>) \o SplitFrom(Tail(s), <<>>)
    ELSE SplitFrom(Tail(s), Append(word, s[1]))

Split(s) == SplitFrom(s, <<>>)

\* column.ilike(pattern): case-insensitive LIKE, % any run of characters, _ any
\* one character.
RECURSIVE Like(_, _)
Like(s, pattern) ==
    IF Len(pattern) = 0 THEN Len(s) = 0
    ELSE IF pattern[1] = "%"
    THEN Like(s, Tail(pattern)) \/ (Len(s) > 0 /\ Like(Tail(s), pattern))
    ELSE /\ Len(s) > 0
         /\ (pattern[1] = "_" \/ LowerChar(pattern[1]) = LowerChar(s[1]))
         /\ Like(Tail(s), Tail(pattern))

ILike(s, pattern) == Like(s, pattern)

Min(a, b) == IF a < b THEN a ELSE b

\* One row of levenshtein_distance's table: current_row for character c1 of s1,
\* extended from position j of s2.
RECURSIVE LevRow(_, _, _, _, _)
LevRow(previous_row, current_row, c1, s2, j) ==
    IF j > Len(s2) THEN current_row
    ELSE LET insertions == previous_row[j + 1] + 1
             deletions == current_row[j] + 1
             substitutions == previous_row[j] + (IF c1 # s2[j] THEN 1 ELSE 0)
         IN LevRow(previous_row,
                   Append(current_row, Min(Min(insertions, deletions), substitutions)),
                   c1, s2, j + 1)

RECURSIVE LevRows(_, _, _, _)
LevRows(previous_row, s1, s2, i) ==
    IF i > Len(s1) THEN previous_row[Len(previous_row)]
    ELSE LevRows(LevRow(previous_row, <<i>>, s1[i], s2, 1), s1, s2, i + 1)

\* levenshtein_distance
levenshtein_distance(s1, s2) ==
    LET long == IF Len(s1) < Len(s2) THEN s2 ELSE s1
        short == IF Len(s1) < Len(s2) THEN s1 ELSE s2
    IN IF Len(short) = 0 THEN Len(long)
       ELSE LevRows([j \in 1..(Len(short) + 1) |-> j - 1], long, short, 1)

\* Scores are fractions <<numerator, denominator>>, denominator positive.
NoScore == <<0, 1>>
FullScore == <<1, 1>>
Less(x, y) == x[1] * y[2] < y[1] * x[2]
Larger(x, y) == IF Less(x, y) THEN y ELSE x
Plus(x, y) == <<x[1] * y[2] + y[1] * x[2], x[2] * y[2]>>

\* word_similarity
WordScore(word1, word2) ==
    LET max_len == IF Len(word1) > Len(word2) THEN Len(word1) ELSE Len(word2)
        min_len == Min(Len(word1), Len(word2))
        distance == levenshtein_distance(word1, word2)
        max_allowed_diff == IF max_len <= 4 THEN 1 ELSE 2
        similarity == <<max_len - distance, max_len>>
    IN IF word1 = word2 THEN FullScore
       ELSE IF max_len = 0 THEN FullScore
       ELSE IF min_len * 10 < max_len * 6 THEN NoScore
       ELSE IF distance <= max_allowed_diff
       THEN (IF distance = 1 THEN Larger(similarity, <<3, 4>>)
             ELSE IF distance = 2 THEN Larger(similarity, <<3, 5>>)
             ELSE similarity)
       ELSE NoScore

\* word_similarity(word1, word2): the two words are lowered and stripped once,
\* then scored.
word_similarity(w1, w2) ==
    IF Len(w1) = 0 \/ Len(w2) = 0 THEN NoScore
    ELSE CHOOSE similarity \in {WordScore(word1, word2) :
                                  word1 \in {Strip(StrLower(w1))},
                                  word2 \in {Strip(StrLower(w2))}} : TRUE

\* A pick that may take a database word an earlier input word has claimed.
BestDbIdx_Reuse(input_word, words_db, matched_db_indices) ==
    LET sim == [idx \in 1..Len(words_db) |-> word_similarity(input_word, words_db[idx])]
        good == {idx \in 1..Len(words_db) :
                   /\ Less(NoScore, sim[idx])
                   /\ \A other \in 1..Len(words_db) : ~Less(sim[idx], sim[other])}
    IN IF good = {} THEN 0 ELSE CHOOSE idx \in good : \A other \in good : idx <= other

\* The database word the loop picks for input_word: the first unclaimed index
\* with the highest score (0 when every unclaimed word scores zero).
BestDbIdx(input_word, words_db, matched_db_indices) ==
    LET free == {idx \in 1..Len(words_db) : idx \notin matched_db_indices}
        sim == [idx \in 1..Len(words_db) |-> word_similarity(input_word, words_db[idx])]
        good == {idx \in free :
                   /\ Less(NoScore, sim[idx])
                   /\ \A other \in free : ~Less(sim[idx], sim[other])}
    IN IF good = {} THEN 0 ELSE CHOOSE idx \in good : \A other \in good : idx <= other

\* The loop over the input words from word i on: the sum of the best scores, or
\* NoScore once an input word finds no database word.
RECURSIVE MatchWords(_, _, _, _, _)
MatchWords(words_input, words_db, i, matched_db_indices, total_similarity) ==
    IF i > Len(words_input) THEN total_similarity
    ELSE LET best_db_idx == BestDbIdx(words_input[i], words_db, matched_db_indices)
         IN IF best_db_idx = 0 THEN NoScore
            ELSE MatchWords(words_input, words_db, i + 1,
                            matched_db_indices \cup {best_db_idx},
                            Plus(total_similarity,
                                 word_similarity(words_input[i], words_db[best_db_idx])))

\* The score of two lowered and stripped names that are not empty.
NameScore(name1, name2, words_input, words_db) ==
    LET total == MatchWords(words_input, words_db, 1, {}, NoScore)
    IN IF name1 = name2 THEN FullScore
       ELSE IF Len(words_input) = 0 \/ Len(words_db) = 0 THEN NoScore
       ELSE IF Len(words_input) = 1
       THEN (IF Len(words_db) = 1
             THEN word_similarity(words_input[1], words_db[1])
             ELSE NoScore)
       ELSE <<total[1], total[2] * Len(words_input)>>

\* similarity_score(name1, name2): name1 from the form, name2 from the table;
\* each name is lowered, stripped and split once.
similarity_score(n1, n2) ==
    IF Len(n1) = 0 \/ Len(n2) = 0 THEN NoScore
    ELSE CHOOSE score \in {NameScore(name1, name2, Split(name1), Split(name2)) :
                             name1 \in {Strip(StrLower(n1))},
                             name2 \in {Strip(StrLower(n2))}} : TRUE

\* max(name_score, username_score) for one approver
HostScore(host_name, appr) ==
    Larger(similarity_score(host_name, Chars(appr.name)),
           similarity_score(host_name, Chars(appr.username)))

\* The rows the first query may return (.first() of the case-insensitive match
\* on name or username).
ExactHosts(host_name) ==
    {a \in Approvers : ILike(Chars(a.name), host_name)
                         \/ ILike(Chars(a.username), host_name)}

\* The best_match the loop over the active approvers may end with: an approver
\* of the highest score, that score being at least 0.5 (all_approvers comes
\* in no stated order and a later approver replaces an earlier one only with a
\* strictly higher score).
FuzzyHosts(host_name) ==
    LET all_approvers == {a \in Approvers : a.is_active}
        scored == {<<a, HostScore(host_name, a)>> : a \in all_approvers}
    IN {best[1] : best \in {s \in scored :
                               /\ Less(NoScore, s[2])
                               /\ ~Less(s[2], <<1, 2>>)
                               /\ \A other \in scored : ~Less(s[2], other[2])}}

\* The approver the form's host_name resolves to (none: HTTP 400).
MatchHost(host_name) ==
    IF ExactHosts(host_name) # {} THEN ExactHosts(host_name) ELSE FuzzyHosts(host_name)

\* person_to_meet of a visit made from the form: the matched approver's username.
FormPersonToMeet_Name(approver) == approver.name

FormPersonToMeet(approver) == approver.username

\* f"[APPOINTMENT] {form_data.purpose}"
FormReason(purpose) == <<AppointmentMarker>> \o purpose

\* Host names typed into the form, and the purposes of visit.
HostNames ==
    { <<"R","a","v","i"," ","K","u","m","a","r">>,
      <<"R","A","V","I">>,
      <<"r","a","v","y">>,
      <<"r","a","v","i"," ","k","u","m","r">>,
      <<"r","a","v","i"," ","k","%">>,
      <<"r","a","v","i"," ","r","a","v","y">>,
      <<"s","u","n","i","l"," ","r","a","o">>,
      <<"m","e","e","e","r","a">>,
      <<"a","r","u","n">>,
      <<"a","r","u","m">>,
      <<"p","o","o","j","a">> }
Purposes == {<<"audit">>, <<"interview">>}

\* The matching of every host name of the model, computed once (the approver
\* table does not change).
HostTable == [h \in HostNames |-> MatchHost(h)]
ResolveHost(host_name) == HostTable[host_name]

\* POST /api/visitors/google-form
google_form_submission(host_name, purpose) ==
    /\ IF ResolveHost(host_name) = {}
       THEN /\ last' = Last("google_form_submission", None, "400")
            /\ UNCHANGED <<visitors, next_visitor_id, clock>>
       ELSE /\ next_visitor_id <= MaxVisitors
            /\ \E approver \in ResolveHost(host_name) :
                 visitors' = With(visitors, next_visitor_id,
                                  Visitor(FormPersonToMeet(approver),
                                          FormReason(purpose), clock))
            /\ next_visitor_id' = next_visitor_id + 1
            /\ clock' = clock + 1
            /\ last' = [Last("google_form_submission", next_visitor_id, "201")
                          EXCEPT !.queued = {HostSms(next_visitor_id)}]
    /\ UNCHANGED <<authVars, sms_reqs, cardVars, appointments, pending_rejections, tasks, issued, reqs>>

(* ------------- decisions from the dashboard (visitor.py) --------------- *)
Statuses == {"WAITING", "APPROVED", "REJECTED"}

\* visitor.reason_to_visit.startswith("[APPOINTMENT]")
IsAppointment(reason) == Len(reason) > 0 /\ reason[1] = AppointmentMarker

NoQr == <<>>

\* A generator that hands out the suffix it handed out last.
QrSuffix_Reused == IF issued = 0 THEN 1 ELSE issued

\* uuid.uuid4().hex[:8].upper(): eight hex digits of a random UUID.  The model
\* draws a suffix that was never drawn before (two draws that collide, one chance
\* in 2^32, are not modelled).
QrSuffix == issued + 1

\* f"APT-{visitor.id}-{suffix}"
QrCode(visitor_id, suffix) == <<"APT", visitor_id, suffix>>

Appointment(visitor_id, status, qr_code) ==
    [visitor_id |-> visitor_id, status |-> status, qr_code |-> qr_code,
     qr_code_sent |-> "NO"]

\* db.query(Appointment).filter(Appointment.visitor_id == visitor.id)
AppointmentsOf(visitor_id) ==
    {a \in DOMAIN appointments : appointments[a].visitor_id = visitor_id}

NextAppointmentId == Cardinality(DOMAIN appointments) + 1

\* Background tasks: the QR email, the rejection email, the approval SMS.  The
\* QR email writes qr_code_sent when it has run and stays in tasks until then; the
\* others only send, and are recorded as queued by the request (last.queued).
QrEmail(appointment_id, qr_code) ==
    [kind |-> "qr_email", id |-> appointment_id, qr |-> qr_code]
RejectionEmail(visitor_id) ==
    [kind |-> "rejection_email", id |-> visitor_id, qr |-> NoQr]
ApprovalSms(visitor_id) ==
    [kind |-> "approval_sms", id |-> visitor_id, qr |-> NoQr]

\* The approval branch for an appointment, on appointment row a (existing or new).
ApproveAppointment(visitor_id, a, qr_code) ==
    /\ appointments' =
         IF a \in DOMAIN appointments
         THEN [appointments EXCEPT ![a].status = "CONFIRMED", ![a].qr_code = qr_code]
         ELSE With(appointments, a, Appointment(visitor_id, "CONFIRMED", qr_code))
    /\ issued' = issued + 1
    /\ tasks' = tasks \cup {QrEmail(a, qr_code)}
    /\ last' = [Last("update_visitor_status", visitor_id, "200")
                  EXCEPT !.queued = {QrEmail(a, qr_code), ApprovalSms(visitor_id)}]

\* The rejection branch for an appointment, on appointment row a.
RejectAppointment(visitor_id, a) ==
    /\ appointments' =
         IF a \in DOMAIN appointments
         THEN [appointments EXCEPT ![a].status = "CANCELLED"]
         ELSE With(appointments, a, Appointment(visitor_id, "CANCELLED", NoQr))
    /\ last' = [Last("update_visitor_status", visitor_id, "200")
                  EXCEPT !.queued = {RejectionEmail(visitor_id)}]
    /\ UNCHANGED <<issued, tasks>>

\* A create-or-update that never looks for an existing row.
TargetAppointments_AlwaysInsert(visitor_id) == {NextAppointmentId}

\* The row the create-or-update works on: any row the lookup's .first() may
\* return, or the id of the row to insert.
TargetAppointments(visitor_id) ==
    IF AppointmentsOf(visitor_id) # {} THEN AppointmentsOf(visitor_id)
    ELSE {NextAppointmentId}

\* PATCH /api/visitors/{visitor_id}/status
update_visitor_status(visitor_id, status) ==
    /\ IF visitor_id \notin DOMAIN visitors
       THEN /\ last' = Last("update_visitor_status", visitor_id, "404")
            /\ UNCHANGED <<visitors, appointments, tasks, issued>>
       ELSE /\ visitors' = [visitors EXCEPT ![visitor_id].status = status]
            /\ IF IsAppointment(visitors[visitor_id].reason_to_visit)
                  /\ status = "APPROVED"
               THEN /\ issued < MaxTokens
                    /\ \E a \in TargetAppointments(visitor_id) :
                         ApproveAppointment(visitor_id, a, QrCode(visitor_id, QrSuffix))
               ELSE IF IsAppointment(visitors[visitor_id].reason_to_visit)
                       /\ status = "REJECTED"
               THEN \E a \in TargetAppointments(visitor_id) :
                      RejectAppointment(visitor_id, a)
               ELSE /\ last' = [Last("update_visitor_status", visitor_id, "200")
                                  EXCEPT !.queued = IF status = "APPROVED"
                                                    THEN {ApprovalSms(visitor_id)}
                                                    ELSE {}]
                    /\ UNCHANGED <<appointments, issued, tasks>>
    /\ UNCHANGED <<authVars, sms_reqs, cardVars, next_visitor_id, pending_rejections, clock, reqs>>

\* The bodies of PUT /api/visitors/{visitor_id} the model sends: update_data is
\* model_dump(exclude_unset=True) of a VisitorUpdate, the fields the request set.
VisitorUpdates ==
    { [person_to_meet |-> "meera"],
      [status |-> "APPROVED"],
      [check_out_time |-> 1],
      [check_out_time |-> None],
      [status |-> "REJECTED", check_out_time |-> 2] }

\* PUT /api/visitors/{visitor_id}: every field of update_data is written to the row.
update_visitor(visitor_id, update_data) ==
    /\ IF visitor_id \notin DOMAIN visitors
       THEN /\ last' = Last("update_visitor", visitor_id, "404")
            /\ UNCHANGED visitors
       ELSE /\ visitors' =
                 [visitors EXCEPT ![visitor_id] =
                    [field \in DOMAIN visitors[visitor_id] |->
                       IF field \in DOMAIN update_data
                       THEN update_data[field]
                       ELSE visitors[visitor_id][field]]]
            /\ last' = Last("update_visitor", visitor_id, "200")
    /\ UNCHANGED <<authVars, sms_reqs, cardVars, next_visitor_id, appointments, pending_rejections,
                   tasks, issued, clock, reqs>>

\* Concurrent status updates.  update_visitor_status is a sync handler: each
\* request runs on a worker thread with a session of its own (autoflush off), so
\* its writes reach the store at db.commit() and its queries see what is
\* committed when they run.
DecideReq(visitor_id, status, existing_appointment) ==
    [pc |-> "looked_up", card_id |-> existing_appointment, visitor_id |-> visitor_id,
     result |-> status]

\* The request loads the visit of an appointment and runs the
\* existing_appointment query (visitor.py:658-703, 796-798); card_id keeps the
\* row found, None when there is none.
DecideLookup(r, visitor_id, status) ==
    /\ reqs[r].pc = "idle"
    /\ visitor_id \in DOMAIN visitors
    /\ IsAppointment(visitors[visitor_id].reason_to_visit)
    /\ status \in {"APPROVED", "REJECTED"}
    /\ \E a \in IF AppointmentsOf(visitor_id) # {} THEN AppointmentsOf(visitor_id)
                 ELSE {None} :
         reqs' = [reqs EXCEPT ![r] = DecideReq(visitor_id, status, a)]
    /\ last' = Last("decide_lookup", visitor_id, "none")
    /\ UNCHANGED <<authVars, sms_reqs, cardVars, visitVars, clock>>

\* The row found is updated, or a new row is added, and the session commits
\* (visitor.py:705-731, 800-823).
DecideCommit(r) ==
    /\ reqs[r].pc = "looked_up"
    /\ reqs[r].visitor_id \in DOMAIN visitors
    /\ visitors' = [visitors EXCEPT ![reqs[r].visitor_id].status = reqs[r].result]
    /\ LET a == IF reqs[r].card_id # None THEN reqs[r].card_id ELSE NextAppointmentId
       IN IF reqs[r].result = "APPROVED"
          THEN /\ issued < MaxTokens
               /\ ApproveAppointment(reqs[r].visitor_id, a,
                                     QrCode(reqs[r].visitor_id, QrSuffix))
          ELSE RejectAppointment(reqs[r].visitor_id, a)
    /\ reqs' = [reqs EXCEPT ![r] = IdleReq]
    /\ UNCHANGED <<authVars, sms_reqs, cardVars, next_visitor_id, pending_rejections,
                   clock>>

\* A background task that marks the row as sent whatever the email service
\* returned.
RunTask_MarksAlways(task, email_sent) ==
    /\ task \in tasks
    /\ tasks' = tasks \ {task}
    /\ appointments' =
         IF task.kind = "qr_email" /\ task.id \in DOMAIN appointments
         THEN [appointments EXCEPT ![task.id].qr_code_sent = "YES"]
         ELSE appointments
    /\ UNCHANGED <<authVars, sms_reqs, cardVars, visitors, next_visitor_id, pending_rejections, issued,
                   clock, reqs, last>>

\* send_qr_email_background runs; email_sent is what the email service returns.
RunTask(task, email_sent) ==
    /\ task \in tasks
    /\ tasks' = tasks \ {task}
    /\ appointments' =
         IF task.kind = "qr_email" /\ email_sent /\ task.id \in DOMAIN appointments
         THEN [appointments EXCEPT ![task.id].qr_code_sent = "YES"]
         ELSE appointments
    /\ UNCHANGED <<authVars, sms_reqs, cardVars, visitors, next_visitor_id, pending_rejections, issued,
                   clock, reqs, last>>

\* db.query(Appointment).filter(Appointment.qr_code == qr_code) over the table tbl
AppointmentsByQr(tbl, qr_code) ==
    {a \in DOMAIN tbl : tbl[a].qr_code = qr_code}

\* GET /api/appointments/qr/{qr_code}: the appointment rows the lookup may return
\* (empty: 404).
get_appointment_by_qr(qr_code) == AppointmentsByQr(appointments, qr_code)

\* The is_approved field of the lookup's response for appointment row a.
is_approved(a) ==
    /\ appointments[a].status = "CONFIRMED"
    /\ IF appointments[a].visitor_id \in DOMAIN visitors
       THEN visitors[appointments[a].visitor_id].status = "APPROVED"
       ELSE FALSE

(* ---------------------- SMS replies (sms_webhook.py) ------------------- *)
approve_keywords ==
    {<<"A","P","P","R","O","V","E","D">>,
     <<"A","P","P","R","O","V","E">>,
     <<"Y","E","S">>,
     <<"O","K">>,
     <<"Y">>,
     <<"A","P","P","R","O">>,
     <<"A","P","R","O","V">>}
reject_keywords ==
    {<<"R","E","J","E","C","T","E","D">>,
     <<"R","E","J","E","C","T">>,
     <<"N","O">>,
     <<"D","E","N","Y">>,
     <<"N">>,
     <<"R","E","J">>}

\* any(keyword in message for keyword in keywords)
AnyKeyword(message, keywords) == \E k \in keywords : Contains(message, k)

\* (Visitor.person_to_meet == approver.username) | (... == approver.name)
Owns(approver, v) ==
    \/ visitors[v].person_to_meet = approver.username
    \/ visitors[v].person_to_meet = approver.name

\* order_by(Visitor.check_in_time.desc()).first() over the rows S
Latest(S) ==
    {v \in S : \A w \in S : visitors[w].check_in_time <= visitors[v].check_in_time}

\* The visit the message is about (sms_webhook.py:249-317): the visits the
\* queries may return, none when the set is empty.
ResolveVisit(approver, visitor_id) ==
    LET by_username == {v \in DOMAIN visitors :
                          /\ visitors[v].person_to_meet = approver.username
                          /\ visitors[v].status = "WAITING"}
        by_name == {v \in DOMAIN visitors :
                      /\ visitors[v].person_to_meet = approver.name
                      /\ visitors[v].status = "WAITING"}
        any_status == {v \in DOMAIN visitors : Owns(approver, v)}
    IN IF Len(visitor_id) > 0
       THEN {v \in DOMAIN visitors : v = IntOf(visitor_id) /\ Owns(approver, v)}
       ELSE IF by_username # {} THEN Latest(by_username)
       ELSE IF by_name # {} THEN Latest(by_name)
       ELSE Latest(any_status)

\* The reply sent back and what the message did, as the latest request.
Reply(kind, visitor_id, approver_phone) ==
    [Last("handle_sms_webhook", visitor_id, kind) EXCEPT !.from = approver_phone]

\* sms_webhook.py:173-218: the message is the reason of the pending rejection.
SmsRejectionReason(approver, approver_phone, pending_visitor_id, text, commit_ok) ==
    LET visitor_id_int == IntOf(pending_visitor_id)
        found == /\ visitor_id_int \in DOMAIN visitors
                 /\ Owns(approver, visitor_id_int)
                 /\ visitors[visitor_id_int].status = "WAITING"
    IN IF found
       THEN IF commit_ok
            THEN /\ visitors' = [visitors EXCEPT
                       ![visitor_id_int].status = "REJECTED",
                       ![visitor_id_int].rejection_reason = Strip(text)]
                 /\ pending_rejections' = Without(pending_rejections, approver_phone)
                 /\ last' = Reply("rejected", visitor_id_int, approver_phone)
            ELSE /\ last' = Reply("error", visitor_id_int, approver_phone)
                 /\ UNCHANGED <<visitors, pending_rejections>>
       ELSE /\ pending_rejections' = Without(pending_rejections, approver_phone)
            /\ last' = Reply("start_over", visitor_id_int, approver_phone)
            /\ UNCHANGED visitors

\* sms_webhook.py:243-408: resolve the visit, then record the pending rejection or
\* apply the approval.
SmsDecide(approver, approver_phone, visitor_id, action, text, commit_ok) ==
    LET found == ResolveVisit(approver, visitor_id)
        popped == IF action = "APPROVED"
                  THEN Without(pending_rejections, approver_phone)
                  ELSE pending_rejections
    IN IF found = {}
       THEN /\ last' = Reply(IF Len(visitor_id) > 0 THEN "not_found" ELSE "none_pending",
                             None, approver_phone)
            /\ pending_rejections' = popped
            /\ UNCHANGED visitors
       ELSE \E v \in found :
              IF action = "REJECT_INITIATED"
              THEN /\ pending_rejections' = With(popped, approver_phone, IdStr(v))
                   /\ last' = Reply("reason_asked", v, approver_phone)
                   /\ UNCHANGED visitors
              ELSE /\ pending_rejections' = popped
                   /\ IF commit_ok
                      THEN /\ visitors' = [visitors EXCEPT
                                 ![v].status = "APPROVED",
                                 ![v].rejection_reason = NoReason]
                           /\ last' = Reply("approved", v, approver_phone)
                      ELSE /\ last' = Reply("error", v, approver_phone)
                           /\ UNCHANGED visitors

\* sms_webhook.py:146-241: the pending rejection first, then the keywords.
SmsFromApprover(approver, approver_phone, text, message_body, commit_ok) ==
    LET visitor_id == IF HasId(message_body) THEN FirstId(message_body) ELSE <<>>
        message_without_id == IF HasId(message_body)
                              THEN Strip(RemoveIds(message_body))
                              ELSE message_body
        pending_visitor_id == IF approver_phone \in DOMAIN pending_rejections
                              THEN pending_rejections[approver_phone]
                              ELSE <<>>
        message_upper == Strip(StrUpper(message_without_id))
    IN IF Len(pending_visitor_id) > 0
       THEN SmsRejectionReason(approver, approver_phone, pending_visitor_id, text,
                               commit_ok)
       ELSE IF AnyKeyword(message_upper, approve_keywords)
       THEN SmsDecide(approver, approver_phone, visitor_id, "APPROVED", text, commit_ok)
       ELSE IF AnyKeyword(message_upper, reject_keywords)
       THEN SmsDecide(approver, approver_phone, visitor_id, "REJECT_INITIATED", text,
                      commit_ok)
       ELSE /\ last' = Reply("invalid", None, approver_phone)
            /\ UNCHANGED <<visitors, pending_rejections>>

\* The body of the webhook handler (sms_webhook.py:92-412) for one message.
\* commit_ok: whether db.commit() succeeds.
SmsBody(From, Body, commit_ok) ==
    LET approver_phone == format_phone_number(From)
        message_body_original == Strip(Body)
        message_body == StrUpper(message_body_original)
        normalized_phone == normalize_phone_for_matching(approver_phone)
        found == FindApprover(approver_phone, normalized_phone)
    IN IF found = {}
       THEN /\ last' = Reply("not_registered", None, approver_phone)
            /\ UNCHANGED <<visitors, pending_rejections>>
       ELSE \E approver \in found :
              SmsFromApprover(approver, approver_phone, message_body_original,
                              message_body, commit_ok)

\* POST /api/sms/webhook.  The handler is a coroutine that never awaits: one
\* message is handled at a time.
handle_sms_webhook(From, Body, commit_ok) ==
    /\ SmsBody(From, Body, commit_ok)
    /\ UNCHANGED <<authVars, sms_reqs, cardVars, next_visitor_id, appointments, tasks,
                   issued, clock, reqs>>

\* The largest number of webhook deliveries in flight together.
MaxSmsReqs == 2
SmsReqIds == 1..MaxSmsReqs

\* A delivery: pc is "idle" (none), "ready" (request read, coroutine not yet
\* scheduled) or "running" (inside the handler body); pending is the entry
\* of pending_rejections the body read at sms_webhook.py:160.
SmsReq(pc, From, Body, pending) ==
    [pc |-> pc, From |-> From, Body |-> Body, pending |-> pending]
IdleSms == SmsReq("idle", <<>>, <<>>, <<>>)

\* pending_rejections.get(approver_phone), <<>> for None
PendingOf(From) ==
    IF format_phone_number(From) \in DOMAIN pending_rejections
    THEN pending_rejections[format_phone_number(From)]
    ELSE <<>>

\* Threads running handler bodies side by side: any delivery may start.
LoopFree_Threads(r) == TRUE

\* The event loop can start the body of delivery r: handle_sms_webhook is an
\* async def whose body contains no await, so a body that has started runs to
\* its return before the loop starts another.
LoopFree(r) == \A q \in SmsReqIds \ {r} : sms_reqs[q].pc # "running"

\* The provider posts a message; the framework reads the form.
SmsAccept(r, From, Body) ==
    /\ sms_reqs[r].pc = "idle"
    /\ sms_reqs' = [sms_reqs EXCEPT ![r] = SmsReq("ready", From, Body, <<>>)]
    /\ UNCHANGED <<authVars, cardVars, visitVars, clock, reqs, last>>

\* The body starts and reads the sender's pending rejection.
SmsBegin(r) ==
    /\ sms_reqs[r].pc = "ready"
    /\ LoopFree(r)
    /\ sms_reqs' = [sms_reqs EXCEPT ![r].pc = "running",
                                    ![r].pending = PendingOf(sms_reqs[r].From)]
    /\ UNCHANGED <<authVars, cardVars, visitVars, clock, reqs, last>>

\* The body runs on to its return.
SmsFinish(r, commit_ok) ==
    /\ sms_reqs[r].pc = "running"
    /\ SmsBody(sms_reqs[r].From, sms_reqs[r].Body, commit_ok)
    /\ sms_reqs' = [sms_reqs EXCEPT ![r] = IdleSms]
    /\ UNCHANGED <<authVars, cardVars, next_visitor_id, appointments, tasks, issued,
                   clock, reqs>>

\* Sender numbers as the provider passes them, and message bodies.
Senders == {<<"+","9","1","9","8","7","6","5","4","3","2","1","0">>,
            <<"0","9","1","2","3","4","5","6","7","8","0">>,
            <<"+","1","4","1","5","5","5","5","0","1","0","0">>}
\* The number host ravi sends from.
HostPhone == <<"+","9","1","9","8","7","6","5","4","3","2","1","0">>
Messages == {<<"R","E","J","E","C","T">>, <<"o","k">>, <<" ","l","a","t","e"," ">>}
              \cup {<<"n","o"," ">> \o IdStr(v) : v \in VisitorIds}

(* ---------------- accounts (core/auth.py, routers/approver.py) --------- *)

\* An account row of vis_approvers or vis_admin as login and the token check
\* read it; hashed_password holds the password it is the hash of.
Account(username, email, password, superuser) ==
    [username |-> username, email |-> email, hashed_password |-> password,
     superuser |-> superuser, is_active |-> TRUE]

\* vis_approvers at the start: the two hosts, ravi a superuser.
SeedApprovers ==
    With(With(<<>>, 1, Account("ravi", "ravi@corp", "pw-ravi", TRUE)),
         2, Account("meera", "meera@corp", "pw-meera", FALSE))

\* vis_admin: no handler writes it. The rows carry no superuser column; the
\* field is there only to share Account and is never read.
vis_admin ==
    With(With(<<>>, 1, Account("asha", "asha@corp", "pw-asha", FALSE)),
         3, Account("amy", "amy@corp", "pw-amy", FALSE))

\* AuthUtils.verify_password
verify_password(password, hashed_password) == password = hashed_password

\* The ids of the rows of tbl with the given value in the given column.
RowsBy(tbl, column, value) == {id \in DOMAIN tbl : tbl[id][column] = value}

\* login: the approver found by username, else by email (none: {}).
LoginApprover(username) ==
    IF RowsBy(vis_approvers, "username", username) # {}
    THEN RowsBy(vis_approvers, "username", username)
    ELSE RowsBy(vis_approvers, "email", username)

\* login: the admin found by username, else by email.
LoginAdmin(username) ==
    IF RowsBy(vis_admin, "username", username) # {}
    THEN RowsBy(vis_admin, "username", username)
    ELSE RowsBy(vis_admin, "email", username)

\* The payload of an access token; is_admin is not part of the payload: it
\* records which table's credentials the login checked.
Token(username, approver_id, is_admin) ==
    [sub |-> username, approver_id |-> approver_id, is_admin |-> is_admin]

\* login's steps once the account row is found.
LoginAs(user, id, is_admin, password) ==
    IF ~verify_password(password, user.hashed_password)
    THEN /\ last' = Last("login", None, "401")
         /\ UNCHANGED tokens
    ELSE IF ~user.is_active
    THEN /\ last' = Last("login", None, "403")
         /\ UNCHANGED tokens
    ELSE /\ tokens' = tokens \cup {Token(user.username, id, is_admin)}
         /\ last' = Last("login", id, "200")

\* POST /api/approvers/login
login(username, password) ==
    /\ IF LoginApprover(username) # {}
       THEN \E id \in LoginApprover(username) :
              LoginAs(vis_approvers[id], id, FALSE, password)
       ELSE IF LoginAdmin(username) # {}
       THEN \E id \in LoginAdmin(username) :
              LoginAs(vis_admin[id], id, TRUE, password)
       ELSE /\ last' = Last("login", None, "401")
            /\ UNCHANGED tokens
    /\ UNCHANGED <<cardVars, visitVars, clock, reqs, sms_reqs, vis_approvers>>

\* The accounts get_current_approver finds for a token: vis_approvers is searched
\* first, then vis_admin, whose rows are turned into accounts with superuser False.
TokenAccounts(token) ==
    LET approver == {id \in DOMAIN vis_approvers :
                       /\ vis_approvers[id].username = token.sub
                       /\ id = token.approver_id}
        admin == {id \in DOMAIN vis_admin :
                    /\ vis_admin[id].username = token.sub
                    /\ id = token.approver_id}
    IN IF approver # {}
       THEN {vis_approvers[id] : id \in approver}
       ELSE {[vis_admin[id] EXCEPT !.superuser = FALSE] : id \in admin}

\* get_current_approver's return value (when it raises nothing).
get_current_approver(token) == CHOOSE a \in TokenAccounts(token) : TRUE

\* The HTTP status get_current_approver raises ("200": it returns).
ApproverCheck(token) ==
    IF TokenAccounts(token) = {} THEN "401"
    ELSE IF ~get_current_approver(token).is_active THEN "403"
    ELSE "200"

\* The HTTP status get_current_superuser raises ("200": it returns).
get_current_superuser(token) ==
    IF ApproverCheck(token) # "200" THEN ApproverCheck(token)
    ELSE IF ~get_current_approver(token).superuser THEN "403"
    ELSE "200"

\* The largest number of vis_approvers rows.
MaxApprovers == 3

\* vis_approvers.id sequence (no row is deleted)
NextApproverId == Cardinality(DOMAIN vis_approvers) + 1

\* POST /api/approvers/ (superusers only)
create_approver(token, username, email, superuser) ==
    /\ IF get_current_superuser(token) # "200"
       THEN /\ last' = Last("create_approver", None, get_current_superuser(token))
            /\ UNCHANGED vis_approvers
       ELSE IF RowsBy(vis_approvers, "username", username) # {}
               \/ RowsBy(vis_approvers, "email", email) # {}
       THEN /\ last' = Last("create_approver", None, "400")
            /\ UNCHANGED vis_approvers
       ELSE /\ NextApproverId <= MaxApprovers
            /\ vis_approvers' = With(vis_approvers, NextApproverId,
                                     Account(username, email, "pw-new", superuser))
            /\ last' = Last("create_approver", NextApproverId, "201")
    /\ UNCHANGED <<cardVars, visitVars, clock, reqs, sms_reqs, tokens>>

\* What the login form and the create form send.
LoginNames == {"ravi", "meera@corp", "amy", "amy@corp", "asha", "nobody"}
Passwords == {"pw-ravi", "pw-meera", "pw-amy", "pw-asha", "pw-new"}
NewUsernames == {"amy", "meera"}
NewEmails == {"amy@hosts", "ravi@corp"}

(* --------------------------- specifications ---------------------------- *)
Init ==
    /\ cards = <<>>
    /\ next_card_id = 1
    /\ visitors = <<>>
    /\ next_visitor_id = 1
    /\ appointments = <<>>
    /\ pending_rejections = <<>>
    /\ tasks = {}
    /\ issued = 0
    /\ clock = 1
    /\ reqs = [r \in ReqIds |-> IdleReq]
    /\ vis_approvers = SeedApprovers
    /\ tokens = {}
    /\ sms_reqs = [r \in SmsReqIds |-> IdleSms]
    /\ last = Last("start", None, "none")

OccInputs == {Unset, "true", "false"}
ToInputs == {Keep, None} \cup VisitorIds

\* Card requests handled one after another.
NextCards ==
    \/ \E n \in CardNames, o \in BOOLEAN, t \in {None} \cup VisitorIds :
         create_icard(n, o, t)
    \/ \E c \in CardIds, n \in CardNames \cup {Unset}, o \in OccInputs, t \in ToInputs :
         update_icard(c, n, o, t)
    \/ \E c \in CardIds, v \in VisitorIds : assign_icard(c, v)
    \/ \E c \in CardIds : release_icard(c)
    \/ \E c \in CardIds : delete_icard(c)
    \/ \E r \in Reasons : check_in_visitor("ravi", r)

SpecCards == Init /\ [][NextCards]_vars

\* Cards created unoccupied-or-not, then assign requests in flight together.
NextAssign ==
    \/ \E n \in CardNames, o \in BOOLEAN, t \in {None} \cup VisitorIds :
         create_icard(n, o, t)
    \/ \E r \in ReqIds, c \in CardIds, v \in VisitorIds : AssignReadCard(r, c, v)
    \/ \E r \in ReqIds : AssignCheckVisitor(r)
    \/ \E r \in ReqIds : AssignCommit(r)

SpecAssign == Init /\ [][NextAssign]_vars

\* Check-ins, decisions from the dashboard, background tasks.
Next ==
    \/ \E r \in Reasons : check_in_visitor("ravi", r)
    \/ \E v \in VisitorIds, st \in Statuses : update_visitor_status(v, st)
    \/ \E task \in tasks, sent \in BOOLEAN : RunTask(task, sent)

Spec == Init /\ [][Next]_vars

\* Visits edited through the generic update while cards are assigned and released.
NextVisits ==
    \/ \E r \in Reasons : check_in_visitor("ravi", r)
    \/ \E n \in CardNames : create_icard(n, FALSE, None)
    \/ \E c \in CardIds, v \in VisitorIds : assign_icard(c, v)
    \/ \E c \in CardIds : release_icard(c)
    \/ \E v \in VisitorIds, d \in VisitorUpdates : update_visitor(v, d)

SpecVisits == Init /\ [][NextVisits]_vars

\* Visits looked up by the id in the request path.
NextIds ==
    \/ \E r \in Reasons : check_in_visitor("ravi", r)
    \/ \E s \in PathIds : get_visitor_by_id(s)

SpecIds == Init /\ [][NextIds]_vars

\* Accounts: logins, and superusers adding approvers.
NextAuth ==
    \/ \E u \in LoginNames, pw \in Passwords : login(u, pw)
    \/ \E t \in tokens, u \in NewUsernames, e \in NewEmails, su \in BOOLEAN :
         create_approver(t, u, e, su)

SpecAuth == Init /\ [][NextAuth]_vars

\* Messages of one host delivered together.
NextSmsLoop ==
    \/ check_in_visitor("ravi", <<"delivery">>)
    \/ \E r \in SmsReqIds, b \in Messages : SmsAccept(r, HostPhone, b)
    \/ \E r \in SmsReqIds : SmsBegin(r)
    \/ \E r \in SmsReqIds, ok \in BOOLEAN : SmsFinish(r, ok)

SpecSmsLoop == Init /\ [][NextSmsLoop]_vars

\* Status updates of appointments in flight together.
NextDecide ==
    \/ check_in_visitor("ravi", <<AppointmentMarker, "audit">>)
    \/ \E r \in ReqIds, v \in VisitorIds, st \in {"APPROVED", "REJECTED"} :
         DecideLookup(r, v, st)
    \/ \E r \in ReqIds : DecideCommit(r)
    \/ \E task \in tasks, sent \in BOOLEAN : RunTask(task, sent)

SpecDecide == Init /\ [][NextDecide]_vars

\* Visits stored under the host's login name and under the display name,
\* decided by SMS.
NextSmsNames ==
    \/ \E p \in {"ravi", "Ravi Kumar"} : check_in_visitor(p, <<"delivery">>)
    \/ \E b \in {<<"R","E","J","E","C","T">>, <<"o","k">>}, ok \in BOOLEAN :
         handle_sms_webhook(HostPhone, b, ok)

SpecSmsNames == Init /\ [][NextSmsNames]_vars

\* One host's visits decided by messages that are exactly one keyword.
NextSmsKeywords ==
    \/ check_in_visitor("ravi", <<"delivery">>)
    \/ \E k \in approve_keywords \cup reject_keywords, ok \in BOOLEAN :
         handle_sms_webhook(HostPhone, k, ok)

SpecSmsKeywords == Init /\ [][NextSmsKeywords]_vars

\* Numbers no host has on file: ten digits that occur inside ravi's stored
\* number without being its last ten, and a five-digit short code.
OtherSenders == {<<"9","1","9","8","7","6","5","4","3","2">>,
                 <<"9","8","7","6","5">>}

\* One host's visits, and messages from registered and unregistered numbers.
NextSmsSenders ==
    \/ check_in_visitor("ravi", <<"delivery">>)
    \/ \E f \in Senders \cup OtherSenders,
          b \in {<<"R","E","J","E","C","T">>, <<"o","k">>}, ok \in BOOLEAN :
         handle_sms_webhook(f, b, ok)

SpecSmsSenders == Init /\ [][NextSmsSenders]_vars

\* Intake: appointments from the form and walk-in check-ins.
NextIntake ==
    \/ \E h \in HostNames, p \in Purposes : google_form_submission(h, p)
    \/ \E p \in PersonNames, r \in Reasons : check_in_visitor(p, r)

SpecIntake == Init /\ [][NextIntake]_vars

\* Check-ins, decisions by SMS reply and from the dashboard.
NextSms ==
    \/ \E p \in {"ravi", "meera"} : check_in_visitor(p, <<"delivery">>)
    \/ \E v \in VisitorIds, st \in Statuses : update_visitor_status(v, st)
    \/ \E f \in Senders, b \in Messages, ok \in BOOLEAN : handle_sms_webhook(f, b, ok)

SpecSms == Init /\ [][NextSms]_vars

\* Appointment-tagged and plain visits of one host, decided by SMS reply and from
\* the dashboard, with the QR email task.
NextSmsAppointment ==
    \/ \E r \in Reasons : check_in_visitor("ravi", r)
    \/ \E v \in VisitorIds, st \in Statuses : update_visitor_status(v, st)
    \/ \E b \in {<<"R","E","J","E","C","T">>, <<"o","k">>}, ok \in BOOLEAN :
         handle_sms_webhook(<<"+","9","1","9","8","7","6","5","4","3","2","1","0">>, b, ok)
    \/ \E task \in tasks, sent \in BOOLEAN : RunTask(task, sent)

SpecSmsAppointment == Init /\ [][NextSmsAppointment]_vars

(* ----------------------------- properties ------------------------------ *)
Succeeded(r) == reqs[r].pc = "done" /\ reqs[r].result = "200"

\* C1: after any sequence of card operations every occupied card is bound to a
\* visit identifier, and no visit identifier is the occupant of two occupied
\* cards.
C1_OccupiedCardHasOneVisit ==
    /\ \A c \in DOMAIN cards : cards[c].occ_status => cards[c].occ_to # None
    /\ \A c1, c2 \in DOMAIN cards :
         (c1 # c2 /\ cards[c1].occ_status /\ cards[c2].occ_status)
           => cards[c1].occ_to # cards[c2].occ_to

\* C2: of two assign requests in flight together for the same card with
\* different visit identifiers, at most one succeeds.
C2_OneAssignPerCard ==
    \A r1, r2 \in ReqIds :
      (r1 # r2 /\ reqs[r1].card_id = reqs[r2].card_id
         /\ reqs[r1].visitor_id # reqs[r2].visitor_id)
        => ~(Succeeded(r1) /\ Succeeded(r2))

\* C3: of two assign requests in flight together that bind two different cards
\* to the same visit, at most one succeeds.
C3_OneAssignPerVisit ==
    \A r1, r2 \in ReqIds :
      (r1 # r2 /\ reqs[r1].visitor_id = reqs[r2].visitor_id
         /\ reqs[r1].card_id # reqs[r2].card_id)
        => ~(Succeeded(r1) /\ Succeeded(r2))

\* Appointment-tagged visits.
Tagged(v) == v \in DOMAIN visitors /\ IsAppointment(visitors[v].reason_to_visit)

\* C4: once a visit is APPROVED or REJECTED no operation gives it another
\* status.
C4_TerminalStatusKept ==
    [][\A v \in DOMAIN visitors :
         visitors[v].status \in {"APPROVED", "REJECTED"}
           => /\ v \in DOMAIN visitors'
              /\ visitors'[v].status = visitors[v].status]_vars

\* C5: whatever decisions are applied one after another to an appointment-tagged
\* visit, at most one appointment row references the visit.
C5_OneAppointmentPerVisit ==
    \A v \in DOMAIN visitors : Tagged(v) => Cardinality(AppointmentsOf(v)) <= 1

\* C5, the case: a tagged visit was approved and later rejected, and the one row
\* created by the approval was updated by the rejection.
C5_RowUpdatedByLaterDecide ==
    \E a \in DOMAIN appointments :
      /\ appointments[a].status = "CANCELLED"
      /\ appointments[a].qr_code # NoQr
      /\ Tagged(appointments[a].visitor_id)
      /\ AppointmentsOf(appointments[a].visitor_id) = {a}

C7_RejectedAppointmentHasNoQr ==
    (/\ last.op = "update_visitor_status"
     /\ last.result = "200"
     /\ Tagged(last.id)
     /\ visitors[last.id].status = "REJECTED")
      => /\ AppointmentsOf(last.id) # {}
         /\ \A a \in AppointmentsOf(last.id) :
              /\ appointments[a].status = "CANCELLED"
              /\ appointments[a].qr_code = NoQr

\* C8: a rejection stores the reason given with it and an approval leaves the
\* rejection reason empty, from the dashboard and by SMS alike.
C8_ReasonFollowsDecision ==
    [][/\ \A v \in DOMAIN visitors :
            update_visitor_status(v, "APPROVED")
              => visitors'[v].rejection_reason = NoReason
       /\ \A f \in Senders, b \in Messages, ok \in BOOLEAN :
            (last'.result \in {"approved", "rejected"} /\ handle_sms_webhook(f, b, ok))
              => visitors'[last'.id].rejection_reason =
                   IF last'.result = "rejected" THEN Strip(b) ELSE NoReason]_vars

\* C9: a decision applied to a visit that already has that status changes neither
\* the visit nor its appointment row, issues no token and queues no notification.
C9_RepeatedDecisionHasNoEffect ==
    [][\A v \in DOMAIN visitors, st \in {"APPROVED", "REJECTED"} :
         (visitors[v].status = st /\ update_visitor_status(v, st))
           => /\ visitors' = visitors
              /\ appointments' = appointments
              /\ issued' = issued
              /\ last'.queued = {}]_vars

\* The host of the sender has a WAITING visit.
HostHasWaiting(From) ==
    LET approver_phone == format_phone_number(From) IN
    \E approver \in FindApprover(approver_phone,
                                 normalize_phone_for_matching(approver_phone)) :
      \E v \in DOMAIN visitors : Owns(approver, v) /\ visitors[v].status = "WAITING"

\* C10: for a sender with no pending rejection whose host has a WAITING visit, a
\* reject message records the pending rejection of the resolved visit and changes
\* no visit; the sender's next message (its commit succeeding) sets that visit to
\* REJECTED with the message as reason and clears the pending rejection.
C10_RejectThenReason ==
    [][\A f \in Senders, b \in Messages :
         LET approver_phone == format_phone_number(f) IN
         /\ (/\ approver_phone \notin DOMAIN pending_rejections
             /\ HostHasWaiting(f)
             /\ last'.result = "reason_asked"
             /\ handle_sms_webhook(f, b, TRUE))
              => /\ visitors' = visitors
                 /\ approver_phone \in DOMAIN pending_rejections'
                 /\ pending_rejections'[approver_phone] = IdStr(last'.id)
         /\ (/\ last.op = "handle_sms_webhook"
             /\ last.result = "reason_asked"
             /\ last.from = approver_phone
             /\ HostHasWaiting(f)
             /\ handle_sms_webhook(f, b, TRUE))
              => /\ visitors'[last.id].status = "REJECTED"
                 /\ visitors'[last.id].rejection_reason = Strip(b)
                 /\ approver_phone \notin DOMAIN pending_rejections']_vars

\* C11: a message from a sender who has a pending rejection leaves that sender
\* with no pending rejection, whatever the message and whatever the outcome.
C11_PendingAlwaysConsumed ==
    [][\A f \in Senders, b \in Messages, ok \in BOOLEAN :
         (/\ format_phone_number(f) \in DOMAIN pending_rejections
          /\ handle_sms_webhook(f, b, ok))
           => format_phone_number(f) \notin DOMAIN pending_rejections']_vars

\* C12: a decision applied by SMS reply to an appointment-tagged visit has the
\* effects of the same decision from the dashboard: after an SMS approval the
\* visit has exactly one appointment row, CONFIRMED and with a QR token, and the
\* approval notification was requested; after an SMS rejection the visit's
\* appointment row is CANCELLED.
C12_SmsDecisionLikeDashboard ==
    (/\ last.op = "handle_sms_webhook"
     /\ last.result \in {"approved", "rejected"}
     /\ Tagged(last.id))
      => IF last.result = "approved"
         THEN /\ \E a \in DOMAIN appointments :
                   /\ AppointmentsOf(last.id) = {a}
                   /\ appointments[a].status = "CONFIRMED"
                   /\ appointments[a].qr_code # NoQr
              /\ ApprovalSms(last.id) \in last.queued
         ELSE /\ AppointmentsOf(last.id) # {}
              /\ \A a \in AppointmentsOf(last.id) :
                   appointments[a].status = "CANCELLED"

\* C13: an SMS approve or reject message never selects a visit that is not
\* WAITING: the visit an approval is applied to, or a pending rejection is
\* recorded for, was WAITING when the message arrived.
C13_SmsSelectsWaitingOnly ==
    [][(/\ last'.op = "handle_sms_webhook"
        /\ last'.result \in {"approved", "reason_asked"})
         => /\ last'.id \in DOMAIN visitors
            /\ visitors[last'.id].status = "WAITING"]_vars

IsExactName(h) ==
    \E a \in Approvers : \/ StrLower(h) = StrLower(Chars(a.name))
                         \/ StrLower(h) = StrLower(Chars(a.username))

\* C20: a one-word host name that is not, ignoring case, the display name or
\* login name of an approver never resolves to an approver whose display name
\* has more than one word.
C20_OneWordNeverMultiWord ==
    [][\A h \in HostNames, p \in Purposes :
         (/\ Len(Split(h)) = 1
          /\ ~IsExactName(h)
          /\ google_form_submission(h, p)
          /\ last'.result = "201")
           => \A a \in Approvers :
                a.username = visitors'[last'.id].person_to_meet
                  => Len(Split(Chars(a.name))) = 1]_vars

\* C15: a decide queues its notifications only together with the commit of the
\* visit's new status (the queued tasks run after the handler has returned), every
\* queued QR email names a stored appointment row, and a send that fails leaves
\* every visit and every appointment row as committed and the handler's result
\* as it was.
C15_CommitBeforeNotify ==
    [][/\ \A v \in VisitorIds, st \in Statuses :
            (update_visitor_status(v, st) /\ last'.queued # {})
              => /\ last'.result = "200"
                 /\ visitors'[v].status = st
                 /\ \A task \in last'.queued :
                      task.kind = "qr_email"
                        => /\ task \in tasks'
                           /\ task.id \in DOMAIN appointments'
                           /\ appointments'[task.id].status = "CONFIRMED"
                           /\ appointments'[task.id].qr_code = task.qr
       /\ tasks' \ tasks # {} => \E v \in VisitorIds, st \in Statuses :
                                    update_visitor_status(v, st)
       /\ \A task \in tasks :
            RunTask(task, FALSE)
              => /\ visitors' = visitors
                 /\ appointments' = appointments
                 /\ last' = last]_vars

\* A QR email failed: the approval stands, the row is CONFIRMED and not marked sent.
C15_FailedSendKeptDecision ==
    /\ tasks = {}
    /\ last.op = "update_visitor_status"
    /\ last.result = "200"
    /\ \E a \in DOMAIN appointments :
         /\ appointments[a].status = "CONFIRMED"
         /\ appointments[a].qr_code_sent = "NO"
         /\ visitors[appointments[a].visitor_id].status = "APPROVED"

\* C16: release of an occupied card clears the card's occ_status and occ_to and
\* sets check_out_time of the visit it was bound to, in the same step; release of
\* an absent card answers 404 and of an unoccupied card 400, and both leave every
\* card and every visit unchanged.
C16_Release ==
    [][\A c \in CardIds :
         release_icard(c)
           => IF c \notin DOMAIN cards
              THEN last'.result = "404" /\ cards' = cards /\ visitors' = visitors
              ELSE IF ~cards[c].occ_status
              THEN last'.result = "400" /\ cards' = cards /\ visitors' = visitors
              ELSE /\ last'.result = "200"
                   /\ DOMAIN cards' = DOMAIN cards
                   /\ ~cards'[c].occ_status
                   /\ cards'[c].occ_to = None
                   /\ \A d \in DOMAIN cards \ {c} : cards'[d] = cards[d]
                   /\ DOMAIN visitors' = DOMAIN visitors
                   /\ \A v \in DOMAIN visitors :
                        IF v = cards[c].occ_to
                        THEN visitors'[v] = [visitors[v] EXCEPT !.check_out_time = clock]
                        ELSE visitors'[v] = visitors[v]]_vars

\* A card that was bound to a visit has been released and the visit is checked out.
C16_ReleasedBoundCard ==
    /\ last.op = "release_icard"
    /\ last.result = "200"
    /\ last.id \in DOMAIN cards
    /\ ~cards[last.id].occ_status
    /\ \E v \in DOMAIN visitors : visitors[v].check_out_time # None

\* C17: a visit's check_out_time changes only in a successful release_icard of
\* the card bound to that visit.
C17_CheckOutOnlyByRelease ==
    [][\A v \in DOMAIN visitors :
         (v \in DOMAIN visitors'
            /\ visitors'[v].check_out_time # visitors[v].check_out_time)
           => /\ last'.op = "release_icard"
              /\ last'.result = "200"
              /\ last'.id \in DOMAIN cards
              /\ cards[last'.id].occ_status
              /\ cards[last'.id].occ_to = v]_vars

\* The six fields of a string of 14 digits form a date and time of the calendar.
IsCalendarStamp(s) ==
    /\ 1 <= Decimal(SubSeq(s, 1, 4))
    /\ 1 <= Decimal(SubSeq(s, 5, 6)) /\ Decimal(SubSeq(s, 5, 6)) <= 12
    /\ 1 <= Decimal(SubSeq(s, 7, 8))
    /\ Decimal(SubSeq(s, 7, 8))
         <= DaysInMonth(Decimal(SubSeq(s, 1, 4)), Decimal(SubSeq(s, 5, 6)))
    /\ Decimal(SubSeq(s, 9, 10)) <= 23
    /\ Decimal(SubSeq(s, 11, 12)) <= 59
    /\ Decimal(SubSeq(s, 13, 14)) <= 59

\* C18: the id check accepts a string exactly when every character is a digit
\* and, if there are 14 of them, they form a date and time of the calendar.
C18_IdAccepted ==
    last.op = "get_visitor_by_id"
      => ((last.result # "400")
            <=> /\ \A i \in 1..Len(last.from) : IsDigit(last.from[i])
                /\ Len(last.from) = 14 => IsCalendarStamp(last.from))

\* C19: a request that carries a token issued at a login with a vis_admin
\* record's credentials never passes the superuser check.
C19_AdminNeverSuperuser ==
    \A t \in tokens : t.is_admin => get_current_superuser(t) # "200"

\* The ways to pair each of n input words with a candidate word of its own.
Pairings(n, m) ==
    {f \in [1..n -> 1..m] : \A i, j \in 1..n : i # j => f[i] # f[j]}

\* The sum of the similarities of the pairs of f from input word i on.
RECURSIVE PairedSum(_, _, _, _)
PairedSum(words_input, words_db, f, i) ==
    IF i > Len(words_input) THEN NoScore
    ELSE Plus(word_similarity(words_input[i], words_db[f[i]]),
              PairedSum(words_input, words_db, f, i + 1))

\* Score is the mean of the similarities of a pairing that gives every input
\* word a candidate word of its own, each pair with a similarity above zero.
PairedWell(words_input, words_db, score) ==
    \E f \in Pairings(Len(words_input), Len(words_db)) :
       /\ \A i \in 1..Len(words_input) :
            Less(NoScore, word_similarity(words_input[i], words_db[f[i]]))
       /\ \E mean \in {<<PairedSum(words_input, words_db, f, 1)[1],
                          PairedSum(words_input, words_db, f, 1)[2] * Len(words_input)>>} :
            ~Less(mean, score) /\ ~Less(score, mean)

\* For each host name of the model: every candidate (display name or login
\* name of an approver) that scores above zero is paired well at that score.
PairedHosts ==
    [h \in HostNames |->
       \A a \in Approvers : \A cand \in {Chars(a.name), Chars(a.username)} :
          \E score \in {similarity_score(h, cand)} :
             Less(NoScore, score)
               => \E pair \in {<<Split(Strip(StrLower(h))), Split(Strip(StrLower(cand)))>>} :
                    PairedWell(pair[1], pair[2], score)]

C22_BodiesRunSerially ==
    /\ Cardinality({r \in SmsReqIds : sms_reqs[r].pc = "running"}) <= 1
    /\ \A r \in SmsReqIds :
         sms_reqs[r].pc = "running"
           => sms_reqs[r].pending = PendingOf(sms_reqs[r].From)

\* Two messages of the number are in flight, one inside the handler and one
\* waiting, and a rejection is pending for the number.
C22_SecondMessageWaits ==
    /\ \E r, q \in SmsReqIds :
         /\ sms_reqs[r].pc = "running"
         /\ sms_reqs[q].pc = "ready"
         /\ sms_reqs[q].From = sms_reqs[r].From
    /\ PendingOf(HostPhone) # <<>>

\* C23: with status updates of one appointment in flight together, at most one
\* appointment row references a visit.
C23_OneRowUnderConcurrency ==
    \A v \in DOMAIN visitors : Cardinality(AppointmentsOf(v)) <= 1

\* The WAITING visits of the approver, stored under either of the two names.
WaitingOf(approver) ==
    {v \in DOMAIN visitors : visitors[v].status = "WAITING" /\ Owns(approver, v)}

\* C24: an approve or reject message without an id, from a host who has WAITING
\* visits and no pending rejection, selects the visit of the latest check-in among
\* all the host's WAITING visits, whichever of the two names they are stored under.
C24_LatestWaitingSelected ==
    [][\A b \in Messages, ok \in BOOLEAN :
         \A approver \in FindApprover(format_phone_number(HostPhone),
                                      normalize_phone_for_matching(
                                          format_phone_number(HostPhone))) :
           (/\ handle_sms_webhook(HostPhone, b, ok)
            /\ PendingOf(HostPhone) = <<>>
            /\ ~HasId(b)
            /\ WaitingOf(approver) # {}
            /\ last'.result \in {"approved", "reason_asked"})
             => last'.id \in Latest(WaitingOf(approver))]_vars

\* C25: with no pending rejection for the sender, a message that is exactly
\* one reject keyword asks for the reason and approves nothing, and a message
\* that is exactly one approve keyword applies an approval (to the visit it
\* resolves to, when the host has a WAITING visit and the commit succeeds).
C25_ExactKeywordAction ==
    [][\A ok \in BOOLEAN :
         /\ \A k \in reject_keywords :
              (handle_sms_webhook(HostPhone, k, ok) /\ PendingOf(HostPhone) = <<>>)
                => /\ last'.result # "approved"
                   /\ \A v \in DOMAIN visitors : visitors'[v].status = visitors[v].status
         /\ \A k \in approve_keywords :
              (handle_sms_webhook(HostPhone, k, ok) /\ PendingOf(HostPhone) = <<>>)
                => last'.result \in {"approved", "error", "none_pending"}]_vars

\* C26: an approve message from a sender who has a pending rejection removes
\* the pending entry, does not reject the remembered visit, and is answered
\* as an approval of the visit the message resolves to (the commit
\* succeeding).
C26_ApproveCancelsPending ==
    [][\A k \in approve_keywords :
         (handle_sms_webhook(HostPhone, k, TRUE) /\ PendingOf(HostPhone) # <<>>)
           => /\ format_phone_number(HostPhone) \notin DOMAIN pending_rejections'
              /\ \A v \in DOMAIN visitors :
                   (IdStr(v) = PendingOf(HostPhone) /\ visitors[v].status = "WAITING")
                     => visitors'[v].status # "REJECTED"
              /\ last'.result \in {"approved", "none_pending"}]_vars

\* C27: appointment intake never resolves the host name to an inactive host:
\* every visit the form creates is stored under the login name of an active
\* approver.
C27_HostIsActive ==
    [][\A h \in HostNames, p \in Purposes :
         (google_form_submission(h, p) /\ last'.result = "201")
           => \A a \in Approvers :
                a.username = visitors'[last'.id].person_to_meet => a.is_active]_vars

\* The last ten digits of sender number f are the last ten digits of no
\* host's stored phone number.
Unregistered(f) ==
    \A a \in Approvers :
      Len(a.ph_no) > 0
        => normalize_phone_for_matching(a.ph_no) # normalize_phone_for_matching(f)

\* C28: a message from a number whose last ten digits are those of no host's
\* stored number changes no visit and no pending rejection and is answered
\* with the not-registered reply.
C28_UnregisteredSenderIgnored ==
    [][\A f \in Senders \cup OtherSenders,
          b \in {<<"R","E","J","E","C","T">>, <<"o","k">>}, ok \in BOOLEAN :
         (handle_sms_webhook(f, b, ok) /\ Unregistered(f))
           => /\ last'.result = "not_registered"
              /\ UNCHANGED <<visitors, pending_rejections>>]_vars

\* C29: an appointment-tagged visit is APPROVED exactly when it has an
\* Appointment row with status CONFIRMED, so that the QR lookup reports
\* is_approved for every APPROVED appointment-tagged visit and for no other.
C29_StatusAgreesWithRow ==
    \A v \in DOMAIN visitors :
      IsAppointment(visitors[v].reason_to_visit)
        => (visitors[v].status = "APPROVED"
              <=> \E a \in AppointmentsOf(v) : appointments[a].status = "CONFIRMED")

\* C30: a row whose qr_code_sent flag is YES holds a token whose email was sent
\* successfully.  Every token is drawn fresh and is mailed by the one task
\* queued with it, so while that task is still waiting to run the token has
\* not been sent and the flag must not be YES.
C30_SentFlagMeansCurrentToken ==
    \A a \in DOMAIN appointments :
      appointments[a].qr_code_sent = "YES"
        => QrEmail(a, appointments[a].qr_code) \notin tasks

====
